---- MODULE Spec2Model ----
(***************************************************************************)
(* autodocstr: a codemod that inserts generated docstrings into Python     *)
(* function definitions.                                                   *)
(*                                                                         *)
(*   - codemod/commands.py: func_has_doc, the signature/body splitter and  *)
(*     the rewrite visitor AutodocCommand.leave_FunctionDef;               *)
(*   - backends.py: the rate limiter, the transport call, the response     *)
(*     cache and CodexBackend;                                             *)
(*   - __main__.py: the driver main(), which registers the codemod in the  *)
(*     libcst configuration file and runs it.                              *)
(*                                                                         *)
(* Source text is a sequence of tokens; the syntax tree is a tree of       *)
(* records whose kinds and fields carry libcst's names.                    *)
(***************************************************************************)
EXTENDS Integers, Sequences, FiniteSets, TLC

VARIABLES
    \* ---- rewrite visitor (codemod/commands.py) ----
    module,      \* the tree the current pass was started on (original nodes)
    updated,     \* the tree with the replacements made so far
    todo,        \* paths of the function definitions still to leave, in order
    vpc,         \* "visit" | "done" | "error"
    verr,        \* the exception that ended the pass, or "none"
    pass,        \* number of the current pass over the file
    cur,         \* record of the latest leave_FunctionDef call
    \* ---- completion backend (backends.py) ----
    bstate,      \* "none" | "alive" | "ctor_failed" | "dead"
    api_key,     \* the credential given to the constructor
    ctor_error,  \* the exception raised by __init__, or "none"
    cache,       \* self.cache: fingerprint -> response
    disk,        \* contents of cache.pickle
    writes,      \* number of times cache.pickle was written
    now,         \* time.perf_counter(), in seconds
    last_time_called, \* the limiter's last_time_called[0]
    call,        \* the generate_function_doc_string call in progress
    requests,    \* the requests sent to the service, in order
    history,     \* the finished generate_function_doc_string calls, in order
    \* ---- driver (__main__.py) ----
    config_file, \* contents of .libcst.codemod.yaml in the working directory
    runs,        \* number of finished runs of main()
    last_main    \* record of the latest run of main()

vvars == <<module, updated, todo, vpc, verr, pass, cur>>
bvars == <<bstate, api_key, ctor_error, cache, disk, writes, now,
           last_time_called, call, requests, history>>
mvars == <<config_file, runs, last_main>>
vars == <<vvars, bvars, mvars>>

None == [kind |-> "None"]

(***************************************************************************)
(* Bounds of the model.                                                    *)
(***************************************************************************)
MaxDepth == 1       \* nesting depth of function definitions in a tree
MaxPasses == 2      \* runs of the codemod over the same file
MaxCalls == 2       \* generate_function_doc_string calls on one backend
MaxChoices == 2     \* candidates in one completion response
MaxTime == 3        \* the clock stops being advanced by idle time here
MaxRuns == 3        \* consecutive runs of main() in one directory
MaxModules == 2     \* entries of the modules list of a configuration file

(***************************************************************************)
(* Tokens of the rendered text.                                            *)
(***************************************************************************)
NL == "\n"                \* default_newline
IND == "    "             \* default_indent
SP == " "

StringTokens == {"\"doc\"", "\"gen\""}
NameTokens == {"x", "a", "d", "T", "f", "g", "h", "C"}

(***************************************************************************)
(* Syntax tree nodes (libcst node classes).                                *)
(***************************************************************************)
Pass == [kind |-> "Pass"]
SimpleString(v) == [kind |-> "SimpleString", value |-> v]
Name(v) == [kind |-> "Name", value |-> v]
Expr(v) == [kind |-> "Expr", value |-> v]
SimpleStatementLine(b) == [kind |-> "SimpleStatementLine", body |-> b]
SimpleStatementSuite(b) == [kind |-> "SimpleStatementSuite", body |-> b]
IndentedBlock(b) == [kind |-> "IndentedBlock", body |-> b]
FunctionDef(n, p, d, r, a, b) ==
    [kind |-> "FunctionDef", name |-> n, params |-> p, decorators |-> d,
     returns |-> r, asynchronous |-> a, body |-> b]
ClassDef(n, b) == [kind |-> "ClassDef", name |-> n, body |-> b]
Module(b) == [kind |-> "Module", body |-> b]

(***************************************************************************)
(* func_has_doc: the matcher                                               *)
(*   IndentedBlock(body=[SimpleStatementLine(body=doc_block), ...])        *)
(*   | SimpleStatementSuite(body=doc_block)                                *)
(* with doc_block = [Expr(SimpleString()), ...].                           *)
(***************************************************************************)
doc_block(b) ==
    /\ Len(b) >= 1
    /\ b[1].kind = "Expr"
    /\ b[1].value.kind = "SimpleString"

single_line_body(body) ==
    /\ body.kind = "SimpleStatementSuite"
    /\ doc_block(body.body)

multi_line_body(body) ==
    /\ body.kind = "IndentedBlock"
    /\ Len(body.body) >= 1
    /\ body.body[1].kind = "SimpleStatementLine"
    /\ doc_block(body.body[1].body)

\* func_has_doc with a doc_block that admits nothing after the string
func_has_doc_onlyStatement(node) ==
    \/ /\ node.body.kind = "SimpleStatementSuite"
       /\ doc_block(node.body.body)
       /\ Len(node.body.body) = 1
    \/ /\ node.body.kind = "IndentedBlock"
       /\ Len(node.body.body) = 1
       /\ node.body.body[1].kind = "SimpleStatementLine"
       /\ doc_block(node.body.body[1].body)
       /\ Len(node.body.body[1].body) = 1

func_has_doc(node) ==
    IF multi_line_body(node.body) \/ single_line_body(node.body)
    THEN TRUE
    ELSE FALSE

(***************************************************************************)
(* Code generation (node._codegen(state) with a fresh CodegenState).       *)
(* `level` is the length of state.indent_tokens.                           *)
(***************************************************************************)
RECURSIVE Copies(_, _)
Copies(tok, n) == IF n = 0 THEN <<>> ELSE <<tok>> \o Copies(tok, n - 1)

add_indent_tokens(level) == Copies(IND, level)

CodegenSmall(s) ==
    IF s.kind = "Pass" THEN <<"pass">> ELSE <<s.value.value>>

RECURSIVE CodegenSmalls(_)
CodegenSmalls(b) ==
    IF Len(b) = 0 THEN <<"pass">>
    ELSE IF Len(b) = 1 THEN CodegenSmall(b[1])
    ELSE CodegenSmall(b[1]) \o <<";", SP>> \o CodegenSmalls(Tail(b))

RECURSIVE CodegenDecorators(_, _)
CodegenDecorators(ds, level) ==
    IF Len(ds) = 0 THEN <<>>
    ELSE add_indent_tokens(level) \o <<"@", ds[1], NL>>
         \o CodegenDecorators(Tail(ds), level)

RECURSIVE CodegenStatement(_, _)
RECURSIVE CodegenStatements(_, _)
RECURSIVE CodegenBody(_, _)

CodegenFunctionHeader(f, level) ==
    CodegenDecorators(f.decorators, level)
    \o add_indent_tokens(level)
    \o (IF f.asynchronous THEN <<"async", SP>> ELSE <<>>)
    \o <<"def", SP, f.name, "(">> \o f.params \o <<")">>
    \o (IF f.returns = "" THEN <<>> ELSE <<SP, "->", SP, f.returns>>)
    \o <<":">>

CodegenBody(body, level) ==
    IF body.kind = "SimpleStatementSuite"
    THEN <<SP>> \o CodegenSmalls(body.body) \o <<NL>>
    ELSE <<NL>> \o
         (IF Len(body.body) = 0
          THEN add_indent_tokens(level + 1) \o <<"pass", NL>>
          ELSE CodegenStatements(body.body, level + 1))

CodegenStatement(s, level) ==
    IF s.kind = "SimpleStatementLine"
    THEN add_indent_tokens(level) \o CodegenSmalls(s.body) \o <<NL>>
    ELSE \* FunctionDef
         CodegenFunctionHeader(s, level) \o CodegenBody(s.body, level)

CodegenStatements(b, level) ==
    IF Len(b) = 0 THEN <<>>
    ELSE CodegenStatement(b[1], level) \o CodegenStatements(Tail(b), level)

(***************************************************************************)
(* split_function_definition_and_body                                      *)
(***************************************************************************)
RECURSIVE IndexFrom(_, _, _)
IndexFrom(s, tok, i) ==
    IF i > Len(s) THEN 0
    ELSE IF s[i] = tok THEN i
    ELSE IndexFrom(s, tok, i + 1)

\* state.tokens.index("pass"), 1-based; 0 when absent
TokenIndex(s, tok) == IndexFrom(s, tok, 1)

SplitSignature(node) ==
    LET func_def == FunctionDef(node.name, node.params, node.decorators,
                                node.returns, node.asynchronous,
                                IndentedBlock(<<SimpleStatementLine(<<Pass>>)>>))
        tokens == CodegenStatement(func_def, 0)
    IN  SubSeq(tokens, 1, TokenIndex(tokens, "pass") - 1)

SplitBody(node) == CodegenBody(node.body, 0)

split_function_definition_and_body(node) ==
    [func_def_str |-> SplitSignature(node), func_body_str |-> SplitBody(node)]

(***************************************************************************)
(* cst.parse_statement: the text is cut into lines, each line into its     *)
(* indentation and its tokens, and the lines are parsed by recursive       *)
(* descent.  A text that is no single statement is a ParserSyntaxError.    *)
(***************************************************************************)
ParserSyntaxError == [kind |-> "ParserSyntaxError"]

At(s, i) == IF i \in 1..Len(s) THEN s[i] ELSE ""

RECURSIVE SplitLines(_, _)
SplitLines(toks, acc) ==
    IF Len(toks) = 0 THEN (IF Len(acc) = 0 THEN <<>> ELSE <<acc>>)
    ELSE IF Head(toks) = NL THEN <<acc>> \o SplitLines(Tail(toks), <<>>)
    ELSE SplitLines(Tail(toks), Append(acc, Head(toks)))

RECURSIVE LeadingIndent(_)
LeadingIndent(line) ==
    IF Len(line) > 0 /\ Head(line) = IND THEN 1 + LeadingIndent(Tail(line))
    ELSE 0

IsNotSpace(tok) == tok # SP

LogicalLine(line) ==
    [indent |-> LeadingIndent(line),
     toks |-> SelectSeq(SubSeq(line, LeadingIndent(line) + 1, Len(line)),
                        IsNotSpace)]

RECURSIVE LogicalLines(_)
LogicalLines(lines) ==
    IF Len(lines) = 0 THEN <<>>
    ELSE LET l == LogicalLine(Head(lines))
         IN  (IF Len(l.toks) = 0 THEN <<>> ELSE <<l>>)
             \o LogicalLines(Tail(lines))

ParseFail == [ok |-> FALSE, node |-> None, body |-> <<>>, next |-> 0]

ParseSmall(tok) ==
    IF tok = "pass" THEN Pass
    ELSE IF tok \in StringTokens THEN Expr(SimpleString(tok))
    ELSE IF tok \in NameTokens THEN Expr(Name(tok))
    ELSE None

RECURSIVE ParseSmalls(_)
ParseSmalls(toks) ==
    IF Len(toks) = 0 \/ ParseSmall(At(toks, 1)) = None THEN ParseFail
    ELSE IF Len(toks) = 1 \/ (Len(toks) = 2 /\ toks[2] = ";")
    THEN [ParseFail EXCEPT !.ok = TRUE, !.body = <<ParseSmall(toks[1])>>]
    ELSE IF toks[2] # ";" THEN ParseFail
    ELSE LET rest == ParseSmalls(SubSeq(toks, 3, Len(toks)))
         IN  IF ~rest.ok THEN ParseFail
             ELSE [rest EXCEPT !.body = <<ParseSmall(toks[1])>> \o rest.body]

IsNameSeq(s) == \A i \in 1..Len(s) : s[i] \in NameTokens

\* the header of a function definition: [async] def name ( params ) [-> T] :
ParseHeader(toks) ==
    LET asynchronous == At(toks, 1) = "async"
        k == IF asynchronous THEN 2 ELSE 1
        close == IndexFrom(toks, ")", k + 3)
        arrow == At(toks, close + 1) = "->"
        colon == IF arrow THEN close + 3 ELSE close + 1
    IN  [ok |-> /\ At(toks, k) = "def"
                /\ At(toks, k + 1) \in NameTokens
                /\ At(toks, k + 2) = "("
                /\ close # 0
                /\ IsNameSeq(SubSeq(toks, k + 3, close - 1))
                /\ arrow => At(toks, close + 2) \in NameTokens
                /\ At(toks, colon) = ":",
         name |-> At(toks, k + 1),
         params |-> SubSeq(toks, k + 3, close - 1),
         returns |-> IF arrow THEN At(toks, close + 2) ELSE "",
         asynchronous |-> asynchronous,
         rest |-> SubSeq(toks, colon + 1, Len(toks))]

IsDecoratorLine(lines, i, level) ==
    /\ i <= Len(lines)
    /\ lines[i].indent = level
    /\ Len(lines[i].toks) = 2
    /\ lines[i].toks[1] = "@"
    /\ lines[i].toks[2] \in NameTokens

RECURSIVE ParseDecorators(_, _, _)
ParseDecorators(lines, i, level) ==
    IF IsDecoratorLine(lines, i, level)
    THEN LET rest == ParseDecorators(lines, i + 1, level)
         IN  [ds |-> <<lines[i].toks[2]>> \o rest.ds, next |-> rest.next]
    ELSE [ds |-> <<>>, next |-> i]

RECURSIVE ParseStatementAt(_, _, _)
RECURSIVE ParseBlock(_, _, _)

ParseStatementAt(lines, i, level) ==
    LET decs == ParseDecorators(lines, i, level)
        j == decs.next
    IN  IF j > Len(lines) \/ lines[j].indent # level THEN ParseFail
        ELSE IF At(lines[j].toks, 1) \in {"def", "async"}
        THEN LET h == ParseHeader(lines[j].toks)
             IN  IF ~h.ok THEN ParseFail
                 ELSE IF Len(h.rest) > 0
                 THEN LET suite == ParseSmalls(h.rest)
                      IN  IF ~suite.ok THEN ParseFail
                          ELSE [ParseFail EXCEPT
                                  !.ok = TRUE,
                                  !.node = FunctionDef(h.name, h.params, decs.ds,
                                             h.returns, h.asynchronous,
                                             SimpleStatementSuite(suite.body)),
                                  !.next = j + 1]
                 ELSE LET block == ParseBlock(lines, j + 1, level + 1)
                      IN  IF ~block.ok \/ Len(block.body) = 0 THEN ParseFail
                          ELSE [ParseFail EXCEPT
                                  !.ok = TRUE,
                                  !.node = FunctionDef(h.name, h.params, decs.ds,
                                             h.returns, h.asynchronous,
                                             IndentedBlock(block.body)),
                                  !.next = block.next]
        ELSE IF Len(decs.ds) > 0 THEN ParseFail
        ELSE LET line == ParseSmalls(lines[j].toks)
             IN  IF ~line.ok THEN ParseFail
                 ELSE [ParseFail EXCEPT
                         !.ok = TRUE,
                         !.node = SimpleStatementLine(line.body),
                         !.next = j + 1]

ParseBlock(lines, i, level) ==
    IF i > Len(lines) \/ lines[i].indent < level
    THEN [ParseFail EXCEPT !.ok = TRUE, !.next = i]
    ELSE IF lines[i].indent > level THEN ParseFail
    ELSE LET s == ParseStatementAt(lines, i, level)
         IN  IF ~s.ok THEN ParseFail
             ELSE LET rest == ParseBlock(lines, s.next, level)
                  IN  IF ~rest.ok THEN ParseFail
                      ELSE [rest EXCEPT !.body = <<s.node>> \o rest.body]

parse_statement(text) ==
    LET lines == LogicalLines(SplitLines(text, <<>>))
        s == ParseStatementAt(lines, 1, 0)
    IN  IF s.ok /\ s.next = Len(lines) + 1 THEN s.node ELSE ParserSyntaxError

(***************************************************************************)
(* AutodocCommand.leave_FunctionDef.  `reply` is what the backend's        *)
(* generate_function_doc_string does when it is called: it returns a text  *)
(* or raises.  The result says whether the splitter and the backend were   *)
(* called.                                                                 *)
(***************************************************************************)
Return(node, s, b) ==
    [kind |-> "return", node |-> node, exc |-> "none", split |-> s, backend |-> b]
Raise(exc, s, b) ==
    [kind |-> "raise", node |-> None, exc |-> exc, split |-> s, backend |-> b]

\* leave_FunctionDef without its func_has_doc guard
leave_FunctionDef_unguarded(original_node, updated_node, reply) ==
    LET parts == split_function_definition_and_body(original_node)
    IN  IF reply.kind = "raise" THEN Raise(reply.exc, TRUE, TRUE)
        ELSE LET func_def == parse_statement(
                     parts.func_def_str \o reply.text \o parts.func_body_str)
             IN  IF func_def = ParserSyntaxError
                 THEN Raise("ParserSyntaxError", TRUE, TRUE)
                 ELSE Return(func_def, TRUE, TRUE)

\* leave_FunctionDef with the backend call wrapped in a try that keeps the
\* node when the backend raises
leave_FunctionDef_skipOnError(original_node, updated_node, reply) ==
    IF func_has_doc(original_node)
    THEN Return(updated_node, FALSE, FALSE)
    ELSE LET parts == split_function_definition_and_body(original_node)
         IN  IF reply.kind = "raise" THEN Return(updated_node, TRUE, TRUE)
             ELSE LET func_def == parse_statement(
                          parts.func_def_str \o reply.text \o parts.func_body_str)
                  IN  IF func_def = ParserSyntaxError
                      THEN Raise("ParserSyntaxError", TRUE, TRUE)
                      ELSE Return(func_def, TRUE, TRUE)

leave_FunctionDef(original_node, updated_node, reply) ==
    IF func_has_doc(original_node)
    THEN Return(updated_node, FALSE, FALSE)
    ELSE LET parts == split_function_definition_and_body(original_node)
         IN  IF reply.kind = "raise" THEN Raise(reply.exc, TRUE, TRUE)
             ELSE LET func_def == parse_statement(
                          parts.func_def_str \o reply.text \o parts.func_body_str)
                  IN  IF func_def = ParserSyntaxError
                      THEN Raise("ParserSyntaxError", TRUE, TRUE)
                      ELSE Return(func_def, TRUE, TRUE)

(***************************************************************************)
(* The traversal of the tree (libcst's visit of a CSTTransformer): the     *)
(* children of a node are visited before the node is left, and the value   *)
(* returned by leave_FunctionDef replaces the node in its parent.  A path  *)
(* is the sequence of statement indices from the module to a node.         *)
(***************************************************************************)
StmtsOf(node) ==
    IF node.kind = "Module" THEN node.body
    ELSE IF node.kind \in {"ClassDef", "FunctionDef"}
            /\ node.body.kind = "IndentedBlock"
    THEN node.body.body
    ELSE <<>>

WithStmts(node, stmts) ==
    IF node.kind = "Module" THEN [node EXCEPT !.body = stmts]
    ELSE [node EXCEPT !.body = IndentedBlock(stmts)]

RECURSIVE Subtree(_, _)
Subtree(node, path) ==
    IF Len(path) = 0 THEN node
    ELSE Subtree(StmtsOf(node)[Head(path)], Tail(path))

RECURSIVE Replace(_, _, _)
Replace(node, path, new) ==
    IF Len(path) = 0 THEN new
    ELSE WithStmts(node,
           [StmtsOf(node) EXCEPT
              ![Head(path)] = Replace(StmtsOf(node)[Head(path)], Tail(path), new)])

RECURSIVE FunctionPaths(_, _)
RECURSIVE PathsIn(_, _, _)
PathsIn(stmts, i, prefix) ==
    IF i > Len(stmts) THEN <<>>
    ELSE LET s == stmts[i]
             p == Append(prefix, i)
         IN  (IF s.kind \in {"ClassDef", "FunctionDef"}
              THEN FunctionPaths(s, p) ELSE <<>>)
             \o (IF s.kind = "FunctionDef" THEN <<p>> ELSE <<>>)
             \o PathsIn(stmts, i + 1, prefix)

\* the function definitions under `node`, children before parents
FunctionPaths(node, prefix) == PathsIn(StmtsOf(node), 1, prefix)

(***************************************************************************)
(* The input files of the model.                                           *)
(***************************************************************************)
DocLine == SimpleStatementLine(<<Expr(SimpleString("\"doc\""))>>)
PassLine == SimpleStatementLine(<<Pass>>)
NameLine == SimpleStatementLine(<<Expr(Name("x"))>>)
DocPassLine == SimpleStatementLine(<<Expr(SimpleString("\"doc\"")), Pass>>)

Signatures ==
    { [name |-> "f", params |-> <<>>, decorators |-> <<>>, returns |-> "",
       asynchronous |-> FALSE],
      [name |-> "g", params |-> <<"a">>, decorators |-> <<"d">>, returns |-> "T",
       asynchronous |-> TRUE] }

LeafBodies ==
    { SimpleStatementSuite(<<Pass>>),
      SimpleStatementSuite(<<Expr(SimpleString("\"doc\""))>>),
      SimpleStatementSuite(<<Expr(SimpleString("\"doc\"")), Pass>>),
      IndentedBlock(<<PassLine>>),
      IndentedBlock(<<NameLine, PassLine>>),
      IndentedBlock(<<DocLine>>),
      IndentedBlock(<<DocLine, PassLine>>),
      IndentedBlock(<<DocPassLine>>),
      IndentedBlock(<<NameLine, DocLine>>) }

\* the statements before and after a nested function definition
Prefixes == { <<>>, <<DocLine>>, <<NameLine>> }
Suffixes == { <<>>, <<NameLine>> }

WithSignature(sig, body) ==
    FunctionDef(sig.name, sig.params, sig.decorators, sig.returns,
                sig.asynchronous, body)

RECURSIVE Functions(_)
Functions(depth) ==
    { WithSignature(sig, body) : sig \in Signatures, body \in LeafBodies }
    \cup
    (IF depth = 0 THEN {}
     ELSE { WithSignature(sig, IndentedBlock(pre \o <<inner>> \o suf)) :
              sig \in Signatures, pre \in Prefixes, suf \in Suffixes,
              inner \in Functions(depth - 1) })

Sibling == WithSignature(CHOOSE sig \in Signatures : sig.name = "f",
                         IndentedBlock(<<PassLine>>))

Trees ==
    { Module(<<f>>) : f \in Functions(MaxDepth) }
    \cup { Module(<<NameLine, ClassDef("C", IndentedBlock(<<f>>))>>) :
             f \in Functions(MaxDepth) }
    \cup { Module(<<ClassDef("C", IndentedBlock(<<NameLine, f, Sibling>>))>>) :
             f \in Functions(MaxDepth) }

\* what Backend.generate_function_doc_string can do when the visitor calls it
Replies ==
    { [kind |-> "text", text |-> <<"\"gen\"">>, exc |-> "none"],
      [kind |-> "raise", text |-> <<>>, exc |-> "BackendError"] }

(***************************************************************************)
(* The rewrite visitor as a state machine.                                 *)
(***************************************************************************)
\* the driver has not been started
NoFile == [kind |-> "missing", modules |-> <<>>]
NoMain == [kind |-> "none", before |-> NoFile, loaded |-> NoFile,
           after |-> NoFile, codemod |-> 0]

MainIdle ==
    /\ config_file = NoFile
    /\ runs = 0
    /\ last_main = NoMain

NoLeave ==
    [kind |-> "none", pass |-> 0, path |-> <<>>, original |-> None,
     updated |-> None, reply |-> None, result |-> None]

BackendIdle ==
    /\ bstate = "none"
    /\ api_key = None
    /\ ctor_error = "none"
    /\ cache = {}
    /\ disk = None
    /\ writes = 0
    /\ now = 0
    /\ last_time_called = 0
    /\ call = None
    /\ requests = <<>>
    /\ history = <<>>

VisitorInit ==
    /\ module \in Trees
    /\ updated = module
    /\ todo = FunctionPaths(module, <<>>)
    /\ vpc = "visit"
    /\ verr = "none"
    /\ pass = 1
    /\ cur = NoLeave
    /\ BackendIdle
    /\ MainIdle

\* leave the next function definition of the traversal
LeaveFunctionDef ==
    /\ vpc = "visit"
    /\ Len(todo) > 0
    /\ \E reply \in Replies :
         LET path == Head(todo)
             original_node == Subtree(module, path)
             updated_node == Subtree(updated, path)
             result == leave_FunctionDef(original_node, updated_node, reply)
         IN  /\ cur' = [kind |-> "leave", pass |-> pass, path |-> path,
                        original |-> original_node, updated |-> updated_node,
                        reply |-> IF result.backend THEN reply ELSE None,
                        result |-> result]
             /\ IF result.kind = "return"
                THEN /\ updated' = Replace(updated, path, result.node)
                     /\ todo' = Tail(todo)
                     /\ UNCHANGED <<vpc, verr>>
                ELSE /\ vpc' = "error"
                     /\ verr' = result.exc
                     /\ UNCHANGED <<updated, todo>>
    /\ UNCHANGED <<module, pass>>
    /\ UNCHANGED <<bvars, mvars>>

\* the traversal has left every function definition: the pass is over
FinishPass ==
    /\ vpc = "visit"
    /\ Len(todo) = 0
    /\ vpc' = "done"
    /\ UNCHANGED <<module, updated, todo, verr, pass, cur>>
    /\ UNCHANGED <<bvars, mvars>>

\* the codemod is run again on the file the previous pass wrote
RunAgain ==
    /\ vpc = "done"
    /\ pass < MaxPasses
    /\ module' = updated
    /\ updated' = updated
    /\ todo' = FunctionPaths(updated, <<>>)
    /\ vpc' = "visit"
    /\ pass' = pass + 1
    /\ cur' = NoLeave
    /\ UNCHANGED verr
    /\ UNCHANGED <<bvars, mvars>>

VisitorNext == LeaveFunctionDef \/ FinishPass \/ RunAgain

VisitorSpec == VisitorInit /\ [][VisitorNext]_vars

(***************************************************************************)
(* backends.py: Python dicts are sets of entries with distinct keys.       *)
(***************************************************************************)
InDict(d, k) == \E e \in d : e.key = k
DictGet(d, k) == (CHOOSE e \in d : e.key = k).value
DictPut(d, k, v) == { e \in d : e.key # k } \cup { [key |-> k, value |-> v] }

(***************************************************************************)
(* rate_limited(max_per_minute): the decorator around make_request.        *)
(***************************************************************************)
max_per_minute == 20
min_interval == 60 \div max_per_minute

\* the time rate_limited_function sleeps before it calls func
left_to_wait(clock, last) == min_interval - (clock - last)

SleepTime(clock, last) ==
    IF left_to_wait(clock, last) > 0 THEN left_to_wait(clock, last) ELSE 0

(***************************************************************************)
(* The completion service's answers to make_request: a JSON body with a    *)
(* 2xx status (null, or an object with a list of choices), or a non-2xx    *)
(* status, which urlopen raises as HTTPError.                              *)
(***************************************************************************)
JsonNull == [kind |-> "null", choices |-> <<>>]
JsonObject(choices) == [kind |-> "object", choices |-> choices]

FinishReasons == {"stop", "length"}
Texts == <<"\"one\"", "\"two\"", "\"three\"", "\"four\"">>

\* the i-th candidate of a response carries the i-th text
ChoiceLists ==
    UNION { { [i \in 1..n |-> [text |-> Texts[i], finish_reason |-> r[i]]] :
                r \in [1..n -> FinishReasons] } : n \in 0..MaxChoices }

Responses == {JsonNull} \cup { JsonObject(c) : c \in ChoiceLists }

HTTPError == [kind |-> "HTTPError", choices |-> <<>>]

Answers == Responses \cup {HTTPError}

(***************************************************************************)
(* CodexBackend.get_response: the request and its fingerprint.             *)
(***************************************************************************)
functions_prompts == <<"# Write a python docstring for the following function.",
                       "# Add the docstring to the following function:">>

BuildPrompt(func_signature) == functions_prompts \o func_signature
BuildSuffix(func_body) == <<"\n\t# start of function: ">> \o func_body

BuildData(prompt, suffix) ==
    [model |-> "code-davinci-002", prompt |-> prompt, suffix |-> suffix,
     max_tokens |-> 512 * 3, best_of |-> 1,
     stop |-> <<"<|docstr|>", "<|endoftext|>">>]

json_dumps(data) == [kind |-> "json", of |-> data]

\* a SHA-256 digest, taken to be free of collisions
compute_sha256(text) == [kind |-> "sha256", of |-> text]

RequestHash(func_signature, func_body) ==
    compute_sha256(json_dumps(BuildData(BuildPrompt(func_signature),
                                        BuildSuffix(func_body))))

\* get_response's cache probe: `if hash in self.cache`
CacheProbe_never(c, hash) == FALSE

CacheProbe(c, hash) == InDict(c, hash)

\* get_response's `self.cache[hash] = result`
CacheStore_dropped(c, hash, result) == c

\* get_response assigning a fresh one-entry dict to self.cache
CacheStore_clobber(c, hash, result) == { [key |-> hash, value |-> result] }

CacheStore(c, hash, result) == DictPut(c, hash, result)

\* the cache after make_request has raised `exc`: get_response stores nothing
CacheOnError_stored(c, hash, exc) == DictPut(c, hash, JsonNull)

CacheOnError(c, hash, exc) == c

\* get_response's `except KeyError`
ExceptClause(exc) == exc = "KeyError"

(***************************************************************************)
(* CodexBackend.generate_function_doc_string, after get_response returned  *)
(* `result`: the loop over result["choices"].                              *)
(***************************************************************************)
Returned(text) == [kind |-> "return", text |-> text, exc |-> "none"]
Raised(exc) == [kind |-> "raise", text |-> "", exc |-> exc]

EmptyResponse == "ValueError: Codex response is empty."

RECURSIVE FirstStop(_, _)
FirstStop(choices, i) ==
    IF i > Len(choices) THEN 0
    ELSE IF choices[i].finish_reason = "stop" THEN i
    ELSE FirstStop(choices, i + 1)

SelectCandidate_firstFallback(result) ==
    IF result = JsonNull THEN Raised(EmptyResponse)
    ELSE IF FirstStop(result.choices, 1) # 0
    THEN Returned(result.choices[FirstStop(result.choices, 1)].text)
    ELSE IF Len(result.choices) = 0 THEN Raised("UnboundLocalError")
    ELSE Returned(result.choices[1].text)

SelectCandidate(result) ==
    IF result = JsonNull THEN Raised(EmptyResponse)
    ELSE IF FirstStop(result.choices, 1) # 0
    THEN Returned(result.choices[FirstStop(result.choices, 1)].text)
    \* the loop ended without a return: completion_candidate is the last
    \* candidate, or unbound when there was none
    ELSE IF Len(result.choices) = 0 THEN Raised("UnboundLocalError")
    ELSE Returned(result.choices[Len(result.choices)].text)

(***************************************************************************)
(* CodexBackend.__init__ and the cache file.                               *)
(***************************************************************************)
Missing == [kind |-> "missing", cache |-> {}]
Corrupt == [kind |-> "corrupt", cache |-> {}]
Pickled(c) == [kind |-> "pickle", cache |-> c]

\* api keys are strings, written as sequences of characters
RECURSIVE lstrip(_)
lstrip(str) ==
    IF Len(str) > 0 /\ Head(str) = " " THEN lstrip(Tail(str)) ELSE str

RECURSIVE rstrip(_)
rstrip(str) ==
    IF Len(str) > 0 /\ str[Len(str)] = " "
    THEN rstrip(SubSeq(str, 1, Len(str) - 1)) ELSE str

strip(str) == rstrip(lstrip(str))

Str(chars) == [kind |-> "str", chars |-> chars]

\* os.getenv("OPENAI_API_KEY"): None when the variable is not set
ApiKeys ==
    { None, Str(<<>>), Str(<<" ">>), Str(<<" ", " ">>), Str(<<" ", "k", " ">>) }

\* `not api_key or api_key.strip() == ""`
KeyIsNotSet(key) ==
    \/ key = None
    \/ Len(key.chars) = 0
    \/ strip(key.chars) = <<>>

AuthenticationMissing == "ValueError: OPENAI_API_KEY is not set."

\* _load_cache: None when the file is missing, the unpickled mapping, or the
\* exception pickle.load raises on a file that is no pickle
_load_cache(file) ==
    IF file.kind = "missing"
    THEN [kind |-> "return", none |-> TRUE, value |-> {}, exc |-> "none"]
    ELSE IF file.kind = "pickle"
    THEN [kind |-> "return", none |-> FALSE, value |-> file.cache, exc |-> "none"]
    ELSE [kind |-> "raise", none |-> FALSE, value |-> {}, exc |-> "UnpicklingError"]

\* `_load_cache() or {}`
OrEmpty(loaded) == IF loaded.none \/ loaded.value = {} THEN {} ELSE loaded.value

\* self.cache is assigned unless _load_cache raised
CacheAttributeSet == ctor_error # "UnpicklingError"

(***************************************************************************)
(* The inputs of a generation call: the splitter's output for these        *)
(* functions.                                                              *)
(***************************************************************************)
CallInputs ==
    { split_function_definition_and_body(
          WithSignature(sig, IndentedBlock(<<PassLine>>))) : sig \in Signatures }

StoredResponse == JsonObject(<<[text |-> "\"old\"", finish_reason |-> "stop"]>>)

\* what cache.pickle can hold when the backend is constructed
CacheFiles ==
    { Missing, Corrupt }
    \cup { Pickled({[key |-> RequestHash(i.func_def_str, i.func_body_str),
                     value |-> StoredResponse]}) :
             i \in { j \in CallInputs : j.func_def_str[1] = "def" } }

VisitorIdle ==
    /\ module = None
    /\ updated = None
    /\ todo = <<>>
    /\ vpc = "idle"
    /\ verr = "none"
    /\ pass = 0
    /\ cur = NoLeave

Init ==
    /\ VisitorIdle
    /\ MainIdle
    /\ bstate = "none"
    /\ api_key = None
    /\ ctor_error = "none"
    /\ cache = {}
    /\ disk \in CacheFiles
    /\ writes = 0
    /\ now \in 0..min_interval
    /\ last_time_called = 0
    /\ call = None
    /\ requests = <<>>
    /\ history = <<>>

\* CodexBackend(api_key)
Construct ==
    /\ bstate = "none"
    /\ \E key \in ApiKeys :
         LET loaded == _load_cache(disk)
         IN  /\ api_key' = key
             /\ IF loaded.kind = "raise"
                THEN /\ bstate' = "ctor_failed"
                     /\ ctor_error' = loaded.exc
                     /\ UNCHANGED cache
                ELSE /\ cache' = OrEmpty(loaded)
                     /\ IF KeyIsNotSet(key)
                        THEN /\ bstate' = "ctor_failed"
                             /\ ctor_error' = AuthenticationMissing
                        ELSE /\ bstate' = "alive"
                             /\ ctor_error' = "none"
    /\ UNCHANGED <<disk, writes, now, last_time_called, call, requests, history>>
    /\ UNCHANGED <<vvars, mvars>>

\* the record of a finished call
Finished(c, result, outcome, answer, cache1, last1, clock1, requests1) ==
    [signature |-> c.signature, body |-> c.body, hash |-> c.hash,
     cache0 |-> c.cache0, last0 |-> c.last0, start |-> c.start,
     requests0 |-> c.requests0, slept |-> c.slept,
     answer |-> answer, result |-> result, outcome |-> outcome,
     cache1 |-> cache1, last1 |-> last1, end |-> clock1,
     requests1 |-> requests1]

\* generate_function_doc_string(func_signature, func_body), up to the return
\* from a cache hit or to the entry of the rate-limited make_request
Generate ==
    /\ bstate = "alive"
    /\ call = None
    /\ Len(history) < MaxCalls
    /\ \E input \in CallInputs :
         LET hash == RequestHash(input.func_def_str, input.func_body_str)
             c == [pc |-> "make_request", signature |-> input.func_def_str,
                   body |-> input.func_body_str, hash |-> hash,
                   cache0 |-> cache, last0 |-> last_time_called, start |-> now,
                   requests0 |-> Len(requests), slept |-> 0]
         IN  IF CacheProbe(cache, hash)
             THEN /\ history' = Append(history,
                        Finished(c, DictGet(cache, hash),
                                 SelectCandidate(DictGet(cache, hash)), None,
                                 cache, last_time_called, now, Len(requests)))
                  /\ call' = None
             ELSE /\ call' = c
                  /\ UNCHANGED history
    /\ UNCHANGED <<bstate, api_key, ctor_error, cache, disk, writes, now,
                   last_time_called, requests>>
    /\ UNCHANGED <<vvars, mvars>>

\* rate_limited_function: sleep for the time left to wait, then call
\* make_request, which sends the request
PassLimiter ==
    /\ call # None
    /\ call.pc = "make_request"
    /\ LET wait == SleepTime(now, last_time_called)
       IN  /\ now' = now + wait
           /\ call' = [call EXCEPT !.pc = "urlopen", !.slept = wait]
           /\ requests' = Append(requests, [sent |-> now + wait, hash |-> call.hash])
    /\ UNCHANGED <<bstate, api_key, ctor_error, cache, disk, writes,
                   last_time_called, history>>
    /\ UNCHANGED <<vvars, mvars>>

\* the service answers; make_request returns or raises, and so do
\* rate_limited_function, get_response and generate_function_doc_string
Answer ==
    /\ call # None
    /\ call.pc = "urlopen"
    /\ \E answer \in Answers, latency \in 0..1 :
         /\ now' = now + latency
         /\ IF answer = HTTPError
            THEN \* raised through rate_limited_function: no timestamp update
                 /\ UNCHANGED last_time_called
                 /\ cache' = CacheOnError(cache, call.hash, "HTTPError")
                 /\ history' = Append(history,
                       IF ExceptClause("HTTPError")
                       THEN \* get_response returns None
                            Finished(call, JsonNull, SelectCandidate(JsonNull),
                                     answer, cache', last_time_called, now',
                                     Len(requests))
                       ELSE Finished(call, None, Raised("HTTPError"),
                                     answer, cache', last_time_called, now',
                                     Len(requests)))
            ELSE /\ last_time_called' = now'
                 /\ cache' = CacheStore(cache, call.hash, answer)
                 /\ history' = Append(history,
                       Finished(call, answer, SelectCandidate(answer), answer,
                                cache', now', now', Len(requests)))
    /\ call' = None
    /\ UNCHANGED <<bstate, api_key, ctor_error, disk, writes, requests>>
    /\ UNCHANGED <<vvars, mvars>>

\* time passes between two calls
Tick ==
    /\ bstate \in {"none", "alive"}
    /\ call = None
    /\ now < MaxTime
    /\ now' = now + 1
    /\ UNCHANGED <<bstate, api_key, ctor_error, cache, disk, writes,
                   last_time_called, call, requests, history>>
    /\ UNCHANGED <<vvars, mvars>>

\* a _write_cache that dumps a fresh dict instead of its argument
_write_cache_empty(c) == Pickled({})

\* _write_cache(cache): the content of cache.pickle after pickle.dump
_write_cache(c) == Pickled(c)

\* CodexBackend.__del__: _write_cache(self.cache); an object whose __init__
\* raised is finalized too, and the AttributeError of a missing self.cache is
\* ignored by the interpreter
Teardown ==
    /\ bstate \in {"alive", "ctor_failed"}
    /\ call = None
    /\ bstate' = "dead"
    /\ IF CacheAttributeSet
       THEN /\ disk' = _write_cache(cache)
            /\ writes' = writes + 1
       ELSE UNCHANGED <<disk, writes>>
    /\ UNCHANGED <<api_key, ctor_error, cache, now, last_time_called, call,
                   requests, history>>
    /\ UNCHANGED <<vvars, mvars>>

Next == Construct \/ Generate \/ PassLimiter \/ Answer \/ Tick \/ Teardown

Spec == Init /\ [][Next]_vars

(***************************************************************************)
(* __main__.py: the driver.  The configuration file is modelled by its     *)
(* modules list, the only key main() reads or changes.                     *)
(***************************************************************************)
Yaml(modules) == [kind |-> "yaml", modules |-> modules]

\* `libcst.tool initialize`: the default configuration
initialize == Yaml(<<"libcst.codemod.commands">>)

Contains(list, x) == \E i \in 1..Len(list) : list[i] = x

\* the modules list after lines 24-25 of main()
register(modules) ==
    IF ~Contains(modules, "autodoc.codemod")
    THEN Append(modules, "autodocstr.codemod")
    ELSE modules

Count(list, x) == Cardinality({ i \in 1..Len(list) : list[i] = x })

\* the configuration files main() may find: none, or one written by
\* `libcst.tool initialize`, by the user or by an earlier run, with the codemod
\* registered at most once
ModuleNames ==
    { "libcst.codemod.commands", "autodoc.codemod", "autodocstr.codemod",
      "my.codemods" }

ConfigFiles ==
    {NoFile} \cup
    { Yaml(l) : l \in { l \in UNION { [1..n -> ModuleNames] : n \in 0..MaxModules } :
                          Count(l, "autodocstr.codemod") <= 1 } }

\* the exit codes of `libcst.tool codemod`, which main() does not look at
ExitCodes == {0, 1}

MainInit ==
    /\ VisitorIdle
    /\ BackendIdle
    /\ config_file \in ConfigFiles
    /\ runs = 0
    /\ last_main = NoMain

\* one run of main()
main ==
    /\ runs < MaxRuns
    /\ \E code \in ExitCodes :
         LET loaded == IF config_file.kind = "missing" THEN initialize
                       ELSE config_file
             dumped == Yaml(register(loaded.modules))
         IN  /\ config_file' = dumped
             /\ last_main' = [kind |-> "run", before |-> config_file,
                              loaded |-> loaded, after |-> dumped,
                              codemod |-> code]
    /\ runs' = runs + 1
    /\ UNCHANGED <<vvars, bvars>>

MainNext == main

MainSpec == MainInit /\ [][MainNext]_vars

(***************************************************************************)
(* Properties of the backend (checked under Spec).                         *)
(***************************************************************************)
Calls == 1..Len(history)

\* the requests sent during the k-th call
RequestsOf(k) == history[k].requests1 - history[k].requests0

SameInput(i, j) ==
    /\ history[i].signature = history[j].signature
    /\ history[i].body = history[j].body

\* C4 (as claimed): two calls with identical signatureText and bodyText issue
\* at most one network request between them, and the second has the result
\* of the first.
C4_AtMostOneRequest ==
    \A i, j \in Calls :
        (i < j /\ SameInput(i, j))
        => /\ RequestsOf(i) + RequestsOf(j) <= 1
           /\ history[j].outcome = history[i].outcome

\* C4 (amended): two calls with identical signatureText and bodyText, the
\* earlier of which did not end in a transport error, issue at most one
\* network request between them (none in the later call), and the later call
\* has the result of the earlier.
C4_AnsweredThenCached ==
    \A i, j \in Calls :
        (i < j /\ SameInput(i, j) /\ history[i].answer # HTTPError)
        => /\ RequestsOf(j) = 0
           /\ RequestsOf(i) + RequestsOf(j) <= 1
           /\ history[j].outcome = history[i].outcome

\* C4's case: a call that sent a request and got a response, then a call with
\* the same input that returned the same text.
C4_Witness ==
    \E i, j \in Calls :
        /\ i < j
        /\ SameInput(i, j)
        /\ RequestsOf(i) = 1
        /\ history[i].outcome.kind = "return"
        /\ history[j].outcome = history[i].outcome

\* C5: a call whose fingerprint is in the cache when it starts returns what
\* the cached response gives, sends no request, does not sleep in the limiter
\* and leaves the limiter's last-call timestamp and the clock where they were.
C5_CacheHitIsSilent ==
    \A k \in Calls :
        InDict(history[k].cache0, history[k].hash)
        => /\ RequestsOf(k) = 0
           /\ history[k].slept = 0
           /\ history[k].end = history[k].start
           /\ history[k].last1 = history[k].last0
           /\ history[k].result = DictGet(history[k].cache0, history[k].hash)
           /\ history[k].cache1 = history[k].cache0

\* C5's case: a cache hit at a moment when the limiter would have slept.
C5_Witness ==
    \E k \in Calls :
        /\ InDict(history[k].cache0, history[k].hash)
        /\ history[k].start - history[k].last0 < min_interval
        /\ Len(requests) > 0
        /\ history[k].outcome.kind = "return"

\* C6 (as claimed): two consecutive requests, whether the earlier succeeded
\* or raised a transport error, are sent at least 60/max_per_minute seconds
\* apart.
C6_MinimumSpacing ==
    \A i \in 1..(Len(requests) - 1) :
        requests[i + 1].sent - requests[i].sent >= min_interval

\* C7: from a response with a non-empty list of candidates the call returns
\* the text of the first candidate whose finish_reason is "stop", and the
\* text of the last candidate when there is none.
C7_FirstStopElseLast ==
    \A k \in Calls :
        (history[k].result.kind = "object" /\ Len(history[k].result.choices) > 0)
        => LET choices == history[k].result.choices
               stops == { i \in 1..Len(choices) : choices[i].finish_reason = "stop" }
               first == CHOOSE i \in stops : \A j \in stops : i <= j
           IN  /\ history[k].outcome.kind = "return"
               /\ history[k].outcome.text =
                    IF stops # {} THEN choices[first].text
                    ELSE choices[Len(choices)].text

\* C7's cases: several candidates none of which stopped, and a stopped
\* candidate that is not the first of the list.
C7_Witness ==
    /\ \E k \in Calls :
         /\ history[k].result.kind = "object"
         /\ Len(history[k].result.choices) >= 2
         /\ \A i \in 1..Len(history[k].result.choices) :
                history[k].result.choices[i].finish_reason # "stop"
         /\ history[k].outcome.text = Texts[Len(history[k].result.choices)]
    /\ \E k \in Calls :
         /\ history[k].result.kind = "object"
         /\ Len(history[k].result.choices) >= 2
         /\ history[k].result.choices[1].finish_reason # "stop"
         /\ history[k].result.choices[2].finish_reason = "stop"
         /\ history[k].outcome.text = Texts[2]

\* C8 (as claimed): when the response has no usable candidate (no response,
\* or an empty list of choices) the call fails with the EmptyResponse error.
C8_EmptyResponseError ==
    \A k \in Calls :
        (\/ history[k].result = JsonNull
         \/ (history[k].result.kind = "object"
             /\ Len(history[k].result.choices) = 0))
        => history[k].outcome = Raised(EmptyResponse)

\* C9: a call whose request is answered with a non-2xx status raises that
\* error to its caller, has sent exactly one request, and leaves the cache as
\* it was.
C9_TransportErrorPropagates ==
    \A k \in Calls :
        history[k].answer = HTTPError
        => /\ history[k].outcome = Raised("HTTPError")
           /\ RequestsOf(k) = 1
           /\ history[k].cache1 = history[k].cache0
           /\ ~InDict(history[k].cache1, history[k].hash)

\* C9's case: a failed call, and the cache still holding what an earlier call
\* stored.
C9_Witness ==
    \E k \in Calls :
        /\ history[k].answer = HTTPError
        /\ history[k].cache0 # {}
        /\ cache = history[k].cache0

IsBlank(key) ==
    \/ key = None
    \/ \A i \in 1..Len(key.chars) : key.chars[i] = " "

\* C10 (as claimed): constructing the backend with an absent, empty or
\* whitespace-only api key fails with the AuthenticationMissing error, and
\* no request is issued.
C10_NoCredentialIsAuthenticationMissing ==
    (bstate # "none" /\ IsBlank(api_key))
    => /\ bstate \in {"ctor_failed", "dead"}
       /\ ctor_error = AuthenticationMissing
       /\ requests = <<>>

\* C14: over the lifetime of a backend that was constructed, whatever calls
\* succeeded or failed in between, the cache file is not written before the
\* teardown, and after the teardown it has been written exactly once and holds
\* the in-memory cache as it was at that moment.
C14_WrittenOnceAtTeardown ==
    ctor_error = "none"
    => /\ bstate \in {"none", "alive"} => (writes = 0 /\ disk \in CacheFiles)
       /\ bstate = "dead" => (writes = 1 /\ disk = Pickled(cache))

\* C14's case: a backend is torn down after a call that stored a response and
\* a call that failed.
C14_Witness ==
    /\ bstate = "dead"
    /\ ctor_error = "none"
    /\ writes = 1
    /\ \E i, j \in Calls :
         /\ history[i].answer \in Responses
         /\ history[i].cache1 # history[i].cache0
         /\ history[i].outcome.kind = "return"
         /\ history[j].answer = HTTPError
    /\ disk = Pickled(cache)
    /\ cache # {}

\* C15 (as claimed): the first call through the rate limiter in a process
\* does not sleep, whatever the clock reads when it is made.
C15_FirstCallNeverBlocks ==
    \A k \in Calls :
        (history[k].requests0 = 0 /\ RequestsOf(k) = 1) => history[k].slept = 0

\* the mapping in cache.pickle when the backend was constructed (the file is
\* not written while the backend is alive)
Preloaded == IF disk.kind = "pickle" THEN disk.cache ELSE {}

\* the calls that sent a request and got a response
Answered == { k \in Calls : RequestsOf(k) = 1 /\ history[k].answer \in Responses }

EntryOf(k) == [key |-> history[k].hash, value |-> history[k].answer]

\* C16: while a backend is alive its cache is the mapping loaded at
\* construction plus one entry, fingerprint -> full response, for each request
\* that was answered; such an entry is added after a cache miss, the rate
\* limiter's wait and the response, and by nothing else; no entry is removed
\* and no key is given a second value.
C16_CacheIsPreloadedPlusAnswered ==
    bstate = "alive"
    => /\ cache = Preloaded \cup { EntryOf(k) : k \in Answered }
       /\ \A k \in Calls :
            /\ history[k].cache0 \subseteq history[k].cache1
            /\ history[k].cache1 \subseteq cache
            /\ IF k \in Answered
               THEN /\ ~InDict(history[k].cache0, history[k].hash)
                    /\ history[k].slept >= left_to_wait(history[k].start, history[k].last0)
                    /\ history[k].cache1 = history[k].cache0 \cup {EntryOf(k)}
               ELSE history[k].cache1 = history[k].cache0
       /\ call # None => cache = call.cache0
       /\ \A e1, e2 \in cache : e1.key = e2.key => e1 = e2

\* C16's case: a backend that started from a stored cache has answered a
\* request for another function, and then served that function from its cache.
C16_Witness ==
    /\ bstate = "alive"
    /\ Preloaded # {}
    /\ Len(history) = 2
    /\ 1 \in Answered
    /\ history[1].slept > 0
    /\ history[2].hash = history[1].hash
    /\ RequestsOf(2) = 0
    /\ Cardinality(cache) = 2

\* C17 (as claimed): loading the cache never fails the construction: with a
\* cache file that is missing or cannot be deserialized, the constructor
\* raises nothing on account of the cache, and the backend starts with an
\* empty cache.
C17_LoadNeverFailsConstruction ==
    (bstate \in {"alive", "ctor_failed"} /\ disk.kind \in {"missing", "corrupt"})
    => /\ ctor_error \in {"none", AuthenticationMissing}
       /\ history = <<>> => cache = {}
       /\ ~KeyIsNotSet(api_key) => bstate = "alive"

(***************************************************************************)
(* Properties of the rewrite visitor (checked under VisitorSpec).          *)
(***************************************************************************)
RECURSIVE SeqToSet(_)
SeqToSet(s) == IF Len(s) = 0 THEN {} ELSE {Head(s)} \cup SeqToSet(Tail(s))

\* the function definitions of a tree
FunctionsOf(tree) == { Subtree(tree, p) : p \in SeqToSet(FunctionPaths(tree, <<>>)) }

\* the statements of a body, one by one: the small statements of its lines
\* (or of its suite) and its compound statements
RECURSIVE FlatStatements(_)
FlatStatements(stmts) ==
    IF Len(stmts) = 0 THEN <<>>
    ELSE (IF Head(stmts).kind = "SimpleStatementLine"
          THEN Head(stmts).body ELSE <<Head(stmts)>>)
         \o FlatStatements(Tail(stmts))

BodyStatements(f) ==
    IF f.body.kind = "SimpleStatementSuite" THEN f.body.body
    ELSE FlatStatements(f.body.body)

IsStringStatement(s) == s.kind = "Expr" /\ s.value.kind = "SimpleString"

RECURSIVE LeadingStrings(_)
LeadingStrings(stmts) ==
    IF Len(stmts) > 0 /\ IsStringStatement(Head(stmts))
    THEN 1 + LeadingStrings(Tail(stmts))
    ELSE 0

SameSignature(f, g) ==
    /\ f.name = g.name
    /\ f.params = g.params
    /\ f.decorators = g.decorators
    /\ f.returns = g.returns
    /\ f.asynchronous = g.asynchronous

\* C1 (as claimed): when a pass over a tree has succeeded, every function
\* definition of the output, nested ones included, begins with a docstring.
C1_EveryFunctionDocumented ==
    (vpc = "done" /\ pass = 1) =>
        \A f \in FunctionsOf(updated) : func_has_doc(f)

\* C2 (as claimed): for every function without a docstring, single-line suite
\* or indented block, signatureText + docStatement + bodyText re-parses as one
\* function definition with the same signature fields, whose body is the doc
\* statement followed by the original body statements.
C2_SplitRoundTrip ==
    (cur.kind = "leave" /\ ~func_has_doc(cur.original) /\ cur.reply.kind = "text")
    => /\ cur.result.kind = "return"
       /\ cur.result.node.kind = "FunctionDef"
       /\ SameSignature(cur.result.node, cur.original)
       /\ BodyStatements(cur.result.node)
            = <<ParseSmall(cur.reply.text[1])>> \o BodyStatements(cur.original)

\* C3: leaving a function that has a docstring returns the candidate rewrite
\* unchanged and calls neither the splitter nor the backend; and no function
\* ever gets a second docstring in front of the one it has, in the first pass
\* or in a pass over the output of an earlier one.
C3_DocumentedLeftAlone ==
    /\ (cur.kind = "leave" /\ func_has_doc(cur.original))
       => /\ cur.result.kind = "return"
          /\ cur.result.node = cur.updated
          /\ ~cur.result.split
          /\ ~cur.result.backend
    /\ \A f \in FunctionsOf(updated) : LeadingStrings(BodyStatements(f)) <= 1

\* C3's case: the second pass leaves a function whose docstring the first
\* pass inserted.
C3_Witness ==
    /\ cur.kind = "leave"
    /\ cur.pass = 2
    /\ func_has_doc(cur.original)
    /\ BodyStatements(cur.original)[1] = Expr(SimpleString("\"gen\""))
    /\ cur.result.node = cur.updated

\* C11: func_has_doc(f) is true exactly when the first statement of f's body,
\* a single-line suite or an indented block, is an expression that is a string
\* literal, whatever follows it; it is false when the first statement is of
\* any other kind.  It holds for every function definition of the input and of
\* the tree under construction, sync and async.
C11_DocIffLeadingString ==
    \A f \in FunctionsOf(module) \cup FunctionsOf(updated) :
        func_has_doc(f) <=>
            /\ Len(BodyStatements(f)) >= 1
            /\ IsStringStatement(BodyStatements(f)[1])

\* C11's case: the visitor leaves an async function whose suite is a string
\* followed by another statement, and takes it to have a docstring.
C11_Witness ==
    /\ cur.kind = "leave"
    /\ cur.original.asynchronous
    /\ cur.original.body = SimpleStatementSuite(<<Expr(SimpleString("\"doc\"")), Pass>>)
    /\ ~cur.result.split
    /\ \E f \in FunctionsOf(module) :
         /\ ~f.asynchronous
         /\ f.body.kind = "IndentedBlock"
         /\ ~func_has_doc(f)

\* what a pass may rewrite: `node` with a hole at every place where the pass
\* input `ref` has a function definition without a docstring
Hole == [kind |-> "Hole"]

RECURSIVE Mask(_, _)
Mask(ref, node) ==
    IF ref.kind = "FunctionDef" /\ ~func_has_doc(ref) THEN Hole
    ELSE IF node.kind # ref.kind \/ Len(StmtsOf(ref)) = 0
            \/ Len(StmtsOf(node)) # Len(StmtsOf(ref))
    THEN node
    ELSE WithStmts(node, [i \in 1..Len(StmtsOf(node)) |->
                            Mask(StmtsOf(ref)[i], StmtsOf(node)[i])])

\* C12: at every point of a pass, the tree under construction differs from
\* the pass input only inside function definitions that had no docstring: the
\* module, class declarations, the non-function statements of class bodies and
\* the functions that already had a docstring are as they were, and the
\* module's own statements gain no docstring.
C12_OnlyUndocumentedFunctionsChange ==
    /\ Mask(module, updated) = Mask(module, module)
    /\ LeadingStrings(FlatStatements(updated.body))
         = LeadingStrings(FlatStatements(module.body))

\* C12's case: a pass over a class whose body holds a plain statement, a
\* documented method and an undocumented one has finished and rewritten the
\* undocumented one.
C12_Witness ==
    /\ vpc = "done"
    /\ pass = 1
    /\ updated # module
    /\ module.body[1].kind = "ClassDef"
    /\ StmtsOf(module.body[1])[1] = NameLine
    /\ func_has_doc(StmtsOf(module.body[1])[2])
    /\ StmtsOf(updated.body[1])[2] = StmtsOf(module.body[1])[2]
    /\ StmtsOf(updated.body[1])[3] # StmtsOf(module.body[1])[3]

\* C13: when the backend raises while generating the doc of a function,
\* leave_FunctionDef raises that same failure instead of returning a node: the
\* function is neither replaced nor passed over, the traversal stops with the
\* failure, and the pass produces no output tree.
C13_BackendFailureRaised ==
    (cur.kind = "leave" /\ cur.reply.kind = "raise")
    => /\ cur.result.kind = "raise"
       /\ cur.result.exc = cur.reply.exc
       /\ cur.result.node = None
       /\ vpc = "error"
       /\ verr = cur.reply.exc
       /\ Len(todo) > 0
       /\ Head(todo) = cur.path
       /\ Subtree(updated, cur.path) = cur.updated

\* C13's case: the backend raises for a function after an earlier function
\* of the same file has been rewritten.
C13_Witness ==
    /\ cur.kind = "leave"
    /\ cur.reply.kind = "raise"
    /\ ~func_has_doc(cur.original)
    /\ updated # module
    /\ vpc = "error"

(***************************************************************************)
(* Properties of the driver (checked under MainSpec).                      *)
(***************************************************************************)
\* C18 (as claimed): after any number of consecutive runs of main() in a
\* directory, the modules list of the configuration file holds the codemod's
\* module exactly once, and a run that finds it registered leaves the list as
\* it was.
C18_RegisteredExactlyOnce ==
    runs >= 1
    => /\ Count(config_file.modules, "autodocstr.codemod") = 1
       /\ Contains(last_main.loaded.modules, "autodocstr.codemod")
          => last_main.after.modules = last_main.loaded.modules

====
